---------------------------- MODULE Spec2Model ----------------------------
(***************************************************************************)
(* A model of nocturn.c (dhaffner/nocturn): the running-status decoder     *)
(* (process, process_buffer, event), the hex-pair helper (digit, byte,     *)
(* send_hexdata), and the supervisor / receive loop (main, usb_connect,    *)
(* nocturn_init, receive_loop, rx_cb).                                     *)
(*                                                                         *)
(* Three specifications share the variables:                               *)
(*   SpecCodec  the decoder fed a byte stream in process_buffer calls      *)
(*   SpecHex    send_hexdata decoding a hex string                         *)
(*   Spec       main's reconnection loop with receive_loop inside it       *)
(***************************************************************************)
EXTENDS Integers, Sequences, FiniteSets, TLC

VARIABLES
    \* ---- decoder (static locals of process, nocturn.c:116-119) ----
    state, status, chan, data1,
    \* ---- decoder environment and history ----
    input,        \* the wire bytes the device will deliver (0..255 each)
    charSigned,   \* whether plain char is signed in this build
    pos,          \* how many bytes of input have been fed so far
    ncalls,       \* process_buffer calls made so far (saturates at MaxCalls)
    split,        \* pos at the end of the first process_buffer call, -1 before
    events,       \* every call of event(): <<status, chan, data1, data2>>
    sent,         \* every call of midi_send_control_change: <<ch, cc, val>>
    printed,      \* lines written to stdout by event()
    \* ---- send_hexdata (nocturn.c:182-196) ----
    hexString,    \* the string argument, as ASCII codes
    hexOff,       \* how far the string pointer has advanced
    buf,          \* the bytes stored through p so far (uint8_t each)
    byteRet,      \* the int the last call of byte() returned
    hexpc,        \* "loop", "sent" (send_data was called) or "trap"
    \* ---- main (nocturn.c:550-605) ----
    pc,           \* where main, or receive_loop called by it, stands
    stat,         \* main's stat
    usb_info,     \* [devh, rx_ep, tx_ep]
    openHandles,  \* device handles opened and not closed (saturates)
    log,          \* main's calls in order, the first MaxLog of them
    initSends,    \* the writes nocturn_init made, until main moves on
    \* ---- receive_loop (nocturn.c:381-547) ----
    rstat,        \* receive_loop's stat
    resubmit,     \* the flag rx_cb sets through transfer->user_data
    outstanding,  \* submissions of the transfer not yet completed
    busySubmit,   \* libusb_submit_transfer was called with one outstanding
    midiReady,    \* MIDI descriptors that poll reported readable
    midiCalls,    \* midi_input calls made in this pass of the loop
    lastStatus,   \* transfer->status rx_cb saw in this pass, or "NONE"
    lostBytes,    \* a transfer that was not COMPLETED held received bytes
    connStart,    \* pos when the running receive_loop was entered
    \* ---- the poll set of receive_loop (nocturn.c:423-452, 476) ----
    usbExposed,   \* what libusb_get_pollfds returns: [fd, events] each
    midiExposed,  \* midipolls->pollfds, npfd of them: [fd, events] each
    pollfds,      \* pollfds[0 .. fds-1] as filled so far
    usbfds,       \* int usbfds
    pollpc        \* "idle", or the place in the loop body: "top", "usb", "midi",
                  \* "built", "polled" (poll was called), "left" (break)

codecVars == <<state, status, chan, data1, input, charSigned, pos, ncalls,
               split, events, sent, printed>>

hexVars == <<hexString, hexOff, buf, byteRet, hexpc>>

supVars == <<stat, usb_info, openHandles, log, initSends>>
mainVars == <<pc, supVars>>

loopVars == <<rstat, resubmit, outstanding, busySubmit, midiReady, midiCalls,
              lastStatus, lostBytes, connStart>>

pollVars == <<usbExposed, midiExposed, pollfds, usbfds, pollpc>>

vars == <<codecVars, hexVars, mainVars, loopVars, pollVars>>

(***************************************************************************)
(* Bounds of the model.                                                    *)
(***************************************************************************)
MaxLen == 5        \* longest input stream drawn over Alphabet
MaxCalls == 2      \* ncalls saturates here
MaxPairs == 3      \* longest hex string drawn over HexAlphabet, in digit pairs
MaxLog == 6        \* main's calls recorded in log
MaxHandles == 2    \* openHandles saturates here
MaxMidiReady == 2  \* most MIDI descriptors readable at once
MaxOutstanding == 2  \* most submissions of the transfer counted
MaxUsbFds == 11      \* most descriptors libusb_get_pollfds exposes
MaxMidiFds == 2      \* most descriptors in midipolls (npfd)

(***************************************************************************)
(* Program constants.                                                      *)
(***************************************************************************)
RX_BUFSIZE == 10   \* nocturn.c:384
POLLFDS == 10      \* nocturn.c:424
CC_STATUS == 176   \* nocturn.c:94
TOUCH_LO == 96     \* nocturn.c:96
TOUCH_HI == 103    \* nocturn.c:96
MIDI_OUT_CHANNEL == 1  \* nocturn.c:104
LIBUSB_ERROR_NO_DEVICE == -4   \* nocturn.c:214
LIBUSB_ERROR_OTHER == -99      \* nocturn.c:479

(***************************************************************************)
(* Bit operations on C ints (two's complement): masking with 2^k - 1 keeps *)
(* the low k bits, which is the remainder modulo 2^k also for a negative   *)
(* int; testing one bit is the parity of the quotient.                     *)
(***************************************************************************)
\* x & (2^k - 1), with m = 2^k
LowBits(x, m) == x % m

\* (x & bit) != 0, with bit a power of two
BitSet(x, bit) == (x \div bit) % 2 = 1

\* x | y, bit by bit on the low 16 bits of the two's complement form (every
\* value that is or-ed fits in them), read back as a signed int.
RECURSIVE OrBits(_, _)
OrBits(a, b) ==
    IF a = 0 THEN b
    ELSE IF b = 0 THEN a
    ELSE (IF a % 2 = 1 \/ b % 2 = 1 THEN 1 ELSE 0)
         + 2 * OrBits(a \div 2, b \div 2)

BitOr(x, y) ==
    LET u == OrBits(x % 65536, y % 65536)
    IN  IF u >= 32768 THEN u - 65536 ELSE u

(***************************************************************************)
(* The decoder.                                                            *)
(***************************************************************************)
midi_state == {"STATUS", "DATA1", "DATA2"}

\* The decoder's static locals as first initialised, with empty logs.
FreshDecoder ==
    [state |-> "STATUS", status |-> -1, chan |-> -1, data1 |-> 0,
     events |-> <<>>, sent |-> <<>>, printed |-> <<>>]

\* The diagnostic line is printed for controllers outside 96..103 only.
PrintsStatusLine(d1) == d1 < TOUCH_LO \/ d1 > TOUCH_HI

\* event() as built with CC72_TEST defined: only controller 72 is passed on,
\* as controller 69.
event_CC72_TEST(d, st, ch, d1, d2, r) ==
    LET called == [d EXCEPT !.events = Append(@, <<st, ch, d1, d2>>)]
    IN  IF st = CC_STATUS
        THEN LET p1 == IF d1 < TOUCH_LO \/ d1 > TOUCH_HI
                       THEN Append(called.printed, <<"Status", st, ch, d1, d2>>)
                       ELSE called.printed
             IN  IF d1 = 72
                 THEN [called EXCEPT
                          !.sent = Append(@, <<MIDI_OUT_CHANNEL, 69, d2>>),
                          !.printed = IF r < 0
                                      THEN Append(p1, <<"Couldn't send midi">>)
                                      ELSE p1]
                 ELSE [called EXCEPT !.printed = p1]
        ELSE called

\* event() giving up after a failed send: the running status is forgotten.
event_SendFailureFatal(d, st, ch, d1, d2, r) ==
    LET called == [d EXCEPT !.events = Append(@, <<st, ch, d1, d2>>)]
    IN  IF st = CC_STATUS
        THEN LET p1 == IF PrintsStatusLine(d1)
                       THEN Append(called.printed, <<"Status", st, ch, d1, d2>>)
                       ELSE called.printed
                 p2 == IF r < 0 THEN Append(p1, <<"Couldn't send midi">>) ELSE p1
             IN  [called EXCEPT !.sent = Append(@, <<MIDI_OUT_CHANNEL, d1, d2>>),
                                !.printed = p2,
                                !.status = IF r < 0 THEN -1 ELSE @]
        ELSE called

\* event(): a control change (status 176) is printed unless data1 is in
\* 96..103, and is always passed to midi_send_control_change(1, data1, data2);
\* r is what that call returns.
event(d, st, ch, d1, d2, r) ==
    LET called == [d EXCEPT !.events = Append(@, <<st, ch, d1, d2>>)]
    IN  IF st = CC_STATUS
        THEN LET p1 == IF PrintsStatusLine(d1)
                       THEN Append(called.printed, <<"Status", st, ch, d1, d2>>)
                       ELSE called.printed
                 p2 == IF r < 0 THEN Append(p1, <<"Couldn't send midi">>) ELSE p1
             IN  [called EXCEPT !.sent = Append(@, <<MIDI_OUT_CHANNEL, d1, d2>>),
                                !.printed = p2]
        ELSE called

\* status = data, the channel nibble left in.
StatusOfUnmasked(data) == data

\* status = data & 0xf0
StatusOf(data) == LowBits(data, 256) - LowBits(data, 16)

\* chan = data & 0x0f
ChanOf(data) == LowBits(data, 16)

\* A status byte when the decoder state is left as it was.
StatusByteKeepState(d, data) ==
    [d EXCEPT !.status = LowBits(data, 256) - LowBits(data, 16),
              !.chan = LowBits(data, 16)]

\* if (data & 0x80) { status = data & 0xf0; chan = data & 0x0f; state = DATA1; }
StatusByte(d, data) ==
    [d EXCEPT !.status = StatusOf(data), !.chan = ChanOf(data),
              !.state = "DATA1"]

\* The decoder going back to wait for a status byte after an Event.
AfterData2ToStatus == "STATUS"

\* case DATA2: ... state = DATA1;
AfterData2 == "DATA1"

\* case STATUS without its break, falling through into case DATA1.
OrphanDataFallThrough(d, data) == [d EXCEPT !.data1 = data, !.state = "DATA2"]

\* case STATUS: break;
OrphanData(d, data) == d

\* process(): one byte through the decoder.
process(d, dataIn, r) ==
    LET data == LowBits(dataIn, 256)
    IN  IF BitSet(data, 128)
        THEN StatusByte(d, data)
        ELSE CASE d.state = "STATUS" -> OrphanData(d, data)
               [] d.state = "DATA1" -> [d EXCEPT !.data1 = data, !.state = "DATA2"]
               [] d.state = "DATA2" ->
                      [event(d, d.status, d.chan, d.data1, data, r)
                           EXCEPT !.state = AfterData2]
               [] OTHER -> d

\* A wire byte as process_buffer reads it through a const char *.
AsChar(b, sgn) == IF sgn /\ b >= 128 THEN b - 256 ELSE b

\* The sink results left for the bytes that follow: the first one is used up
\* when the byte just processed called midi_send_control_change.
RestResults(before, after, rs) ==
    IF Len(after.sent) > Len(before.sent) /\ rs # <<>> THEN Tail(rs) ELSE rs

\* What the next call of the sink returns (0 when none is left to draw).
NextResult(rs) == IF rs = <<>> THEN 0 ELSE Head(rs)

\* The loop written while (--len): the last byte of each buffer is not fed.
RECURSIVE process_buffer_predec(_, _, _, _)
process_buffer_predec(d, data, sgn, rs) ==
    IF Len(data) <= 1 THEN d
    ELSE LET n == process(d, AsChar(Head(data), sgn), NextResult(rs))
         IN  process_buffer_predec(n, Tail(data), sgn, RestResults(d, n, rs))

\* process_buffer(): while (len--) process(*data++); rs holds what the sink
\* returns to the successive calls made while this buffer is processed.
RECURSIVE process_buffer(_, _, _, _)
process_buffer(d, data, sgn, rs) ==
    IF Len(data) = 0 THEN d
    ELSE LET n == process(d, AsChar(Head(data), sgn), NextResult(rs))
         IN  process_buffer(n, Tail(data), sgn, RestResults(d, n, rs))

(***************************************************************************)
(* SpecCodec: a byte stream fed to the decoder in process_buffer calls.    *)
(***************************************************************************)
Alphabet == {176, 147, 16}

Example == <<176, 16, 64, 32, 80>>

ExtraInputs ==
    { Example,
      <<176, 95, 1>>, <<176, 103, 2>>, <<176, 104, 3>>, <<181, 96, 127>>,
      <<255, 0, 127>>, <<128, 127, 0>>, <<16, 64, 32>>,
      <<176, 16, 176, 32, 80>>, <<176, 16, 64, 147, 32, 80>> }

SeqsUpTo(S, n) == UNION { [1..k -> S] : k \in 0..n }

Inputs == SeqsUpTo(Alphabet, MaxLen) \cup ExtraInputs

SinkResults == {0, -1}

Decoder ==
    [state |-> state, status |-> status, chan |-> chan, data1 |-> data1,
     events |-> events, sent |-> sent, printed |-> printed]

HexIdle ==
    /\ hexString = <<>>
    /\ hexOff = 0
    /\ buf = <<>>
    /\ byteRet = 0
    /\ hexpc = "sent"

PollIdle ==
    /\ usbExposed = <<>>
    /\ midiExposed = <<>>
    /\ pollfds = <<>>
    /\ usbfds = 0
    /\ pollpc = "idle"

MainIdle ==
    /\ pc = "idle"
    /\ stat = 0
    /\ usb_info = [devh |-> 0, rx_ep |-> 255, tx_ep |-> 255]
    /\ openHandles = 0
    /\ log = <<>>
    /\ initSends = <<>>
    /\ rstat = 0
    /\ resubmit = 0
    /\ outstanding = 0
    /\ busySubmit = FALSE
    /\ midiReady = 0
    /\ midiCalls = 0
    /\ lastStatus = "NONE"
    /\ lostBytes = FALSE
    /\ connStart = 0

InitCodec ==
    /\ HexIdle
    /\ MainIdle
    /\ PollIdle
    /\ input \in Inputs
    /\ charSigned \in BOOLEAN
    /\ pos = 0
    /\ ncalls = 0
    /\ split = -1
    /\ state = FreshDecoder.state
    /\ status = FreshDecoder.status
    /\ chan = FreshDecoder.chan
    /\ data1 = FreshDecoder.data1
    /\ events = FreshDecoder.events
    /\ sent = FreshDecoder.sent
    /\ printed = FreshDecoder.printed

Min(a, b) == IF a <= b THEN a ELSE b

\* One call process_buffer(buf, n) on the next n bytes of the stream.
ProcessBufferCall ==
    \E n \in 0..Min(RX_BUFSIZE, Len(input) - pos) :
    \E rs \in [1..((n + 1) \div 2) -> SinkResults] :
        LET d == process_buffer(Decoder, SubSeq(input, pos + 1, pos + n),
                                charSigned, rs)
        IN  /\ state' = d.state
            /\ status' = d.status
            /\ chan' = d.chan
            /\ data1' = d.data1
            /\ events' = d.events
            /\ sent' = d.sent
            /\ printed' = d.printed
            /\ pos' = pos + n
            /\ ncalls' = Min(ncalls + 1, MaxCalls)
            /\ split' = IF ncalls = 0 THEN pos + n ELSE split
            /\ UNCHANGED <<input, charSigned>>
            /\ UNCHANGED <<hexVars, pollVars, mainVars, loopVars>>

NextCodec == ProcessBufferCall

SpecCodec == InitCodec /\ [][NextCodec]_vars

(***************************************************************************)
(* The hex-pair helper.                                                    *)
(***************************************************************************)
\* digit() with the letter offset left out.
digit_no_letters(hexdigit) == hexdigit - 48

\* digit(): hexdigit - '0' - ((hexdigit > '9') ? ('a' - ('9' + 1)) : 0)
digit(hexdigit) ==
    hexdigit - 48 - (IF hexdigit > 57 THEN 97 - (57 + 1) ELSE 0)

\* x << 4 on an int: defined for x >= 0; for a negative x the behaviour is
\* undefined, and a build either shifts the two's complement bits or traps.
ShiftLeft4(x) ==
    IF x >= 0
    THEN { [trap |-> FALSE, val |-> x * 16] }
    ELSE { [trap |-> FALSE, val |-> x * 16], [trap |-> TRUE, val |-> 0] }

\* byte(): (digit(string[0]) << 4) | digit(string[1]), every outcome of it.
byte(c0, c1) ==
    { IF hi.trap THEN hi ELSE [hi EXCEPT !.val = BitOr(hi.val, digit(c1))] :
          hi \in ShiftLeft4(digit(c0)) }

\* *p++ = byte(string): the int converted to uint8_t.
AsUint8(v) == v % 256

(***************************************************************************)
(* SpecHex: send_hexdata on one string of even length.                     *)
(***************************************************************************)
Ascii(ch) ==
    CASE ch = "0" -> 48 [] ch = "1" -> 49 [] ch = "2" -> 50 [] ch = "3" -> 51
      [] ch = "4" -> 52 [] ch = "5" -> 53 [] ch = "6" -> 54 [] ch = "7" -> 55
      [] ch = "8" -> 56 [] ch = "9" -> 57
      [] ch = "a" -> 97 [] ch = "b" -> 98 [] ch = "c" -> 99
      [] ch = "d" -> 100 [] ch = "e" -> 101 [] ch = "f" -> 102
      [] ch = "A" -> 65 [] ch = "B" -> 66 [] ch = "C" -> 67
      [] ch = "D" -> 68 [] ch = "E" -> 69 [] ch = "F" -> 70

AsciiString(chars) == [i \in 1..Len(chars) |-> Ascii(chars[i])]

DecimalDigits == 48..57

LowerHex == 97..102

UpperHex == 65..70

HexDigits == DecimalDigits \cup LowerHex \cup UpperHex

\* The literals nocturn_init passes to send_hexdata (nocturn.c:341-359).
InitPayloads ==
    << AsciiString(<<"b", "0", "4", "8", "0", "0">>),
       AsciiString(<<"b", "0", "4", "0", "6", "0">>),
       AsciiString(<<"b", "0", "5", "1", "3", "0">>),
       AsciiString(<<"b", "0", "5", "0", "3", "0">>) >>

HexAlphabet == {48, 98, 66}

HexStrings ==
    UNION { [1..(2 * k) -> HexAlphabet] : k \in 0..MaxPairs }
    \cup [1..2 -> HexDigits]
    \cup { InitPayloads[i] : i \in 1..4 }

CodecIdle ==
    /\ input = <<>>
    /\ charSigned = FALSE
    /\ pos = 0
    /\ ncalls = 0
    /\ split = -1
    /\ state = FreshDecoder.state
    /\ status = FreshDecoder.status
    /\ chan = FreshDecoder.chan
    /\ data1 = FreshDecoder.data1
    /\ events = FreshDecoder.events
    /\ sent = FreshDecoder.sent
    /\ printed = FreshDecoder.printed

InitHex ==
    /\ CodecIdle
    /\ MainIdle
    /\ PollIdle
    /\ hexString \in HexStrings
    /\ hexOff = 0
    /\ buf = <<>>
    /\ byteRet = 0
    /\ hexpc = "loop"

\* One pass of while (*string) { *p++ = byte(string); string += 2; }
HexDecodePair ==
    /\ hexpc = "loop"
    /\ hexOff < Len(hexString)
    /\ \E v \in byte(hexString[hexOff + 1], hexString[hexOff + 2]) :
           IF v.trap
           THEN /\ hexpc' = "trap"
                /\ UNCHANGED <<hexString, hexOff, buf, byteRet>>
           ELSE /\ byteRet' = v.val
                /\ buf' = Append(buf, AsUint8(v.val))
                /\ hexOff' = hexOff + 2
                /\ UNCHANGED <<hexString, hexpc>>
    /\ UNCHANGED <<codecVars, mainVars, loopVars, pollVars>>

\* The loop ends at the terminating NUL: send_data(devh, endpoint, buf, p - buf).
HexSend ==
    /\ hexpc = "loop"
    /\ hexOff = Len(hexString)
    /\ hexpc' = "sent"
    /\ UNCHANGED <<hexString, hexOff, buf, byteRet>>
    /\ UNCHANGED <<codecVars, mainVars, loopVars, pollVars>>

NextHex == HexDecodePair \/ HexSend

SpecHex == InitHex /\ [][NextHex]_vars

(***************************************************************************)
(* usb_connect and nocturn_init.                                           *)
(***************************************************************************)
LibusbErrors == {LIBUSB_ERROR_NO_DEVICE}

\* Where a call of usb_connect can fail, and "none".
ConnectSteps ==
    {"open", "get_device", "descriptor", "config", "set_configuration",
     "claim", "none"}

\* The two endpoint addresses config1 can hold.
EndpointPairs == { <<2, 129>>, <<129, 130>> }

\* uint8_t rx_ep = -1, tx_ep = -1; then each address goes to rx_ep if its
\* bit 7 is set and to tx_ep otherwise; the test tx_ep < 0 || rx_ep < 0 is
\* made on the uint8_t values.
ResolveEndpoints(ep0, ep1) ==
    LET rx0 == IF BitSet(ep0, 128) THEN ep0 ELSE AsUint8(-1)
        tx0 == IF BitSet(ep0, 128) THEN AsUint8(-1) ELSE ep0
        rx1 == IF BitSet(ep1, 128) THEN ep1 ELSE rx0
        tx1 == IF BitSet(ep1, 128) THEN tx0 ELSE ep1
    IN  [rx_ep |-> rx1, tx_ep |-> tx1, failed |-> tx1 < 0 \/ rx1 < 0]

\* usb_connect(): what it returns, whether it opened a handle, and the
\* usb_info it leaves, when the library call named failAt fails with err.
usb_connect(failAt, err, eps, info, handle) ==
    LET ep == ResolveEndpoints(eps[1], eps[2])
        fail(r, o) == [ret |-> r, opened |-> o, info |-> info]
    IN  IF failAt = "open" THEN fail(LIBUSB_ERROR_NO_DEVICE, FALSE)
        ELSE IF failAt = "get_device" THEN fail(LIBUSB_ERROR_NO_DEVICE, TRUE)
        ELSE IF failAt \in {"descriptor", "config"} THEN fail(err, TRUE)
        ELSE IF ep.failed THEN fail(LIBUSB_ERROR_NO_DEVICE, TRUE)
        ELSE IF failAt \in {"set_configuration", "claim"} THEN fail(err, TRUE)
        ELSE [ret |-> 0, opened |-> TRUE,
              info |-> [devh |-> handle, rx_ep |-> ep.rx_ep,
                        tx_ep |-> ep.tx_ep]]

\* The bytes send_hexdata stores in buf for a string of digits and a-f.
RECURSIVE HexBytes(_)
HexBytes(string) ==
    IF Len(string) < 2 THEN <<>>
    ELSE LET v == CHOOSE x \in byte(string[1], string[2]) : ~x.trap
         IN  <<AsUint8(v.val)>> \o HexBytes(SubSeq(string, 3, Len(string)))

SendResults == {0} \cup LibusbErrors

Write(i, r) == [bytes |-> HexBytes(InitPayloads[i]), res |-> r]

\* nocturn_init() making all four writes whatever they return.
nocturn_init_best_effort(rs) ==
    [ret |-> 0,
     sends |-> <<Write(1, rs[1]), Write(2, rs[2]),
                 Write(3, rs[3]), Write(4, rs[4])>>]

\* nocturn_init(): rs are the results of the four send_hexdata calls it can
\* make; a failure of the first or the second ends it, those of the third
\* and fourth are overwritten and ignored.
nocturn_init(rs) ==
    IF rs[1] < 0 THEN [ret |-> rs[1], sends |-> <<Write(1, rs[1])>>]
    ELSE IF rs[2] < 0
    THEN [ret |-> rs[2], sends |-> <<Write(1, rs[1]), Write(2, rs[2])>>]
    ELSE [ret |-> 0,
          sends |-> <<Write(1, rs[1]), Write(2, rs[2]),
                      Write(3, rs[3]), Write(4, rs[4])>>]

(***************************************************************************)
(* Spec: main's reconnection loop, with receive_loop stepping inside it.   *)
(***************************************************************************)
\* The bytes the device delivers, in order, as receives complete.
DeviceStream == Example

TransferStatuses ==
    {"COMPLETED", "ERROR", "TIMED_OUT", "CANCELLED", "NO_DEVICE"}

Init ==
    /\ HexIdle
    /\ PollIdle
    /\ input = DeviceStream
    /\ charSigned \in BOOLEAN
    /\ pos = 0
    /\ ncalls = 0
    /\ split = -1
    /\ state = FreshDecoder.state
    /\ status = FreshDecoder.status
    /\ chan = FreshDecoder.chan
    /\ data1 = FreshDecoder.data1
    /\ events = FreshDecoder.events
    /\ sent = FreshDecoder.sent
    /\ printed = FreshDecoder.printed
    /\ pc = "top"
    /\ stat = 0
    /\ usb_info = [devh |-> 0, rx_ep |-> AsUint8(-1), tx_ep |-> AsUint8(-1)]
    /\ openHandles = 0
    /\ log = <<>>
    /\ initSends = <<>>
    /\ rstat = 0
    /\ resubmit = 0
    /\ outstanding = 0
    /\ busySubmit = FALSE
    /\ midiReady = 0
    /\ midiCalls = 0
    /\ lastStatus = "NONE"
    /\ lostBytes = FALSE
    /\ connStart = 0

Record(e) == IF Len(log) < MaxLog THEN Append(log, e) ELSE log

\* if (stat) sleep(1), taken with sleep before the first attempt too.
SleepsAlways(st) == TRUE

\* if (stat) { ...; sleep(1); }
Sleeps(st) == st # 0

\* The top of the do body (nocturn.c:570-573).
LoopTop ==
    /\ pc = "top"
    /\ log' = IF Sleeps(stat) THEN Record("sleep") ELSE log
    /\ pc' = "connect"
    /\ UNCHANGED <<stat, usb_info, openHandles, initSends>>
    /\ UNCHANGED <<codecVars, hexVars, pollVars, loopVars>>

\* stat = usb_connect(ctx, &usb_info); if (stat < 0) continue;
UsbConnect ==
    /\ pc = "connect"
    /\ \E failAt \in ConnectSteps, err \in LibusbErrors, eps \in EndpointPairs :
           LET r == usb_connect(failAt, err, eps, usb_info,
                                Min(openHandles + 1, MaxHandles))
           IN  /\ stat' = r.ret
               /\ usb_info' = r.info
               /\ openHandles' = IF r.opened
                                 THEN Min(openHandles + 1, MaxHandles)
                                 ELSE openHandles
               /\ log' = Record(IF r.ret < 0 THEN "connect_fail"
                                ELSE "connect_ok")
               /\ pc' = IF r.ret < 0 THEN "while" ELSE "init"
    /\ UNCHANGED initSends
    /\ UNCHANGED <<codecVars, hexVars, pollVars, loopVars>>

\* stat = nocturn_init(&usb_info); if (stat < 0) continue;
NocturnInit ==
    /\ pc = "init"
    /\ \E rs \in [1..4 -> SendResults] :
           LET r == nocturn_init(rs)
           IN  /\ stat' = r.ret
               /\ initSends' = r.sends
               /\ log' = Record(IF r.ret < 0 THEN "init_fail" ELSE "init_ok")
               /\ pc' = IF r.ret < 0 THEN "while" ELSE "receive"
    /\ UNCHANGED <<usb_info, openHandles>>
    /\ UNCHANGED <<codecVars, hexVars, pollVars, loopVars>>

\* The decoder started afresh for each run of receive_loop.
DecoderAtEntryReset(d) ==
    [d EXCEPT !.state = FreshDecoder.state, !.status = FreshDecoder.status,
              !.chan = FreshDecoder.chan, !.data1 = FreshDecoder.data1]

\* The decoder when receive_loop is entered: state, status, chan and data1
\* are static locals of process() and nothing assigns them but process().
DecoderAtEntry(d) == d

\* receive_loop is entered: the transfer is allocated, filled and submitted
\* (nocturn.c:385-414).
RlSubmit ==
    /\ pc = "receive"
    /\ log' = Record("receive")
    /\ \E r \in {0} \cup LibusbErrors :
           /\ rstat' = r
           /\ IF r < 0
              THEN /\ pc' = "exit_ml"
                   /\ outstanding' = 0
                   /\ UNCHANGED resubmit
              ELSE /\ pc' = "poll"
                   /\ outstanding' = 1
                   /\ resubmit' = 0
    /\ initSends' = <<>>
    /\ connStart' = pos
    /\ LET d == DecoderAtEntry(Decoder)
       IN  /\ state' = d.state
           /\ status' = d.status
           /\ chan' = d.chan
           /\ data1' = d.data1
    /\ UNCHANGED <<input, charSigned, pos, ncalls, split, events, sent, printed>>
    /\ UNCHANGED <<busySubmit, midiReady, midiCalls, lastStatus, lostBytes>>
    /\ UNCHANGED <<stat, usb_info, openHandles>>
    /\ UNCHANGED <<hexVars, pollVars>>

\* stat after poll() failed, were it left as the last submit set it.
PollFailedStatKept(cur) == cur

\* stat = LIBUSB_ERROR_OTHER; break;
PollFailedStat(cur) == LIBUSB_ERROR_OTHER

\* The wait of one pass of the loop: the poll set is built, the timeout
\* asked for, and poll called (nocturn.c:418-481).
RlPoll ==
    /\ pc = "poll"
    /\ midiCalls' = 0
    /\ \/ \E e \in LibusbErrors :
              /\ rstat' = e
              /\ pc' = "exit_ml"
              /\ UNCHANGED midiReady
       \/ /\ rstat' = PollFailedStat(rstat)
          /\ pc' = "exit_ml"
          /\ UNCHANGED midiReady
       \/ \E n \in 0..MaxMidiReady :
              /\ midiReady' = n
              /\ pc' = "handle"
              /\ UNCHANGED rstat
    /\ UNCHANGED <<resubmit, outstanding, busySubmit, lastStatus, lostBytes,
                   connStart>>
    /\ UNCHANGED <<codecVars, hexVars, pollVars, supVars>>

\* What a transfer that did not complete may still hold in the buffer.
PartialSlices == { <<>>, <<147, 1>> }

\* The first actual_length bytes of the buffer when rx_cb is called: the next
\* bytes of the device's stream for a transfer that completed, none or a
\* partial slice for one that did not.
Received(st) ==
    IF st = "COMPLETED"
    THEN { SubSeq(input, pos + 1, pos + n) :
               n \in 0..Min(RX_BUFSIZE, Len(input) - pos) }
    ELSE PartialSlices

\* rx_cb leaving the flag alone after a cancelled transfer or a lost device.
RxCbResubmitUnlessFatal(st, cur) ==
    IF st \in {"CANCELLED", "NO_DEVICE"} THEN cur ELSE 1

\* rx_cb: *resubmit = 1;
RxCbResubmit(st, cur) == 1

\* rx_cb decoding the buffer whatever the status of the transfer.
RxCbDecodesAlways(st) == TRUE

\* rx_cb: if (transfer->status == LIBUSB_TRANSFER_COMPLETED)
RxCbDecodes(st) == st = "COMPLETED"

\* libusb_handle_events_timeout(ctx, &zero_tv): the outstanding receive, if it
\* has completed, is handed to rx_cb, which sets *resubmit = 1 and, for
\* LIBUSB_TRANSFER_COMPLETED, runs process_buffer on the actual_length bytes
\* received (nocturn.c:491, 146-159).
RlHandleEvents ==
    /\ pc = "handle"
    /\ pc' = "midi"
    /\ \/ /\ lastStatus' = "NONE"
          /\ UNCHANGED <<resubmit, outstanding, lostBytes, codecVars>>
       \/ /\ outstanding > 0
          /\ outstanding' = outstanding - 1
          /\ \E st \in TransferStatuses :
                 /\ lastStatus' = st
                 /\ resubmit' = RxCbResubmit(st, resubmit)
                 /\ \E data \in Received(st) :
                    \E rs \in [1..((Len(data) + 1) \div 2) -> SinkResults] :
                        LET d == IF RxCbDecodes(st)
                                 THEN process_buffer(Decoder, data,
                                                     charSigned, rs)
                                 ELSE Decoder
                        IN  /\ state' = d.state
                            /\ status' = d.status
                            /\ chan' = d.chan
                            /\ data1' = d.data1
                            /\ events' = d.events
                            /\ sent' = d.sent
                            /\ printed' = d.printed
                            /\ pos' = IF st = "COMPLETED"
                                      THEN pos + Len(data) ELSE pos
                            /\ lostBytes' = (lostBytes \/
                                   (st # "COMPLETED" /\ data # <<>>))
                            /\ UNCHANGED <<input, charSigned, ncalls, split>>
    /\ UNCHANGED <<rstat, busySubmit, midiReady, midiCalls, connStart>>
    /\ UNCHANGED <<hexVars, pollVars, supVars>>

\* midi_input called once in a pass in which any MIDI descriptor is readable.
MidiInputCallsOnce(ready) == IF ready > 0 THEN 1 ELSE 0

\* The calls of midi_input the for loop makes when ready of the MIDI
\* descriptors have POLLIN set: one for each.
MidiInputCalls(ready) == ready

\* for (i = usbfds; i < fds; i++) if (pollfds[i].revents & POLLIN) midi_input();
RlMidi ==
    /\ pc = "midi"
    /\ midiCalls' = MidiInputCalls(midiReady)
    /\ midiReady' = 0
    /\ pc' = "resubmit"
    /\ UNCHANGED <<rstat, resubmit, outstanding, busySubmit, lastStatus,
                   lostBytes, connStart>>
    /\ UNCHANGED <<codecVars, hexVars, pollVars, supVars>>

\* The flag when it is not cleared before the transfer is submitted again.
ResubmitLeftSet(cur) == cur

\* resubmit = 0;
ResubmitCleared(cur) == 0

\* A failed resubmission that does not end the loop.
SubmitFailedIgnored(r) == FALSE

\* if (stat != 0) { ...; break; }
SubmitFailed(r) == r # 0

\* if (resubmit) { resubmit = 0; stat = libusb_submit_transfer(transfer);
\* if (stat != 0) break; } (nocturn.c:498-508)
RlResubmit ==
    /\ pc = "resubmit"
    /\ IF resubmit # 0
       THEN /\ resubmit' = ResubmitCleared(resubmit)
            /\ busySubmit' = (busySubmit \/ outstanding > 0)
            /\ \E r \in {0} \cup LibusbErrors :
                   /\ rstat' = r
                   /\ IF SubmitFailed(r)
                      THEN /\ pc' = "exit_ml"
                           /\ UNCHANGED outstanding
                      ELSE /\ pc' = "poll"
                           /\ outstanding' = Min(outstanding + 1, MaxOutstanding)
       ELSE /\ pc' = "poll"
            /\ UNCHANGED <<rstat, resubmit, outstanding, busySubmit>>
    /\ lastStatus' = "NONE"
    /\ UNCHANGED <<midiReady, midiCalls, lostBytes, connStart>>
    /\ UNCHANGED <<codecVars, hexVars, pollVars, supVars>>

\* exit_ml: libusb_free_transfer(transfer); return stat; and in main
\* stat = receive_loop(...); if (stat < 0) continue; (nocturn.c:526-546, 592-596)
\* The transfer and the locals of receive_loop are gone with the return.
RlExit ==
    /\ pc = "exit_ml"
    /\ stat' = rstat
    /\ pc' = "while"
    /\ rstat' = 0
    /\ resubmit' = 0
    /\ outstanding' = 0
    /\ midiReady' = 0
    /\ midiCalls' = 0
    /\ lastStatus' = "NONE"
    /\ connStart' = pos
    /\ UNCHANGED <<busySubmit, lostBytes>>
    /\ UNCHANGED <<usb_info, openHandles, log, initSends>>
    /\ UNCHANGED <<codecVars, hexVars, pollVars>>

\* } while (stat); and after the loop libusb_close, libusb_exit, return 0.
While ==
    /\ pc = "while"
    /\ IF stat # 0
       THEN /\ pc' = "top"
            /\ UNCHANGED openHandles
       ELSE /\ pc' = "exited"
            /\ openHandles' = IF openHandles > 0 THEN openHandles - 1 ELSE 0
    /\ UNCHANGED <<stat, usb_info, log, initSends>>
    /\ UNCHANGED <<codecVars, hexVars, pollVars, loopVars>>

Next ==
    \/ LoopTop
    \/ UsbConnect
    \/ NocturnInit
    \/ RlSubmit
    \/ RlPoll
    \/ RlHandleEvents
    \/ RlMidi
    \/ RlResubmit
    \/ RlExit
    \/ While

Spec == Init /\ [][Next]_vars

\* sleep(1) returns and the loop condition is evaluated: main's own steps
\* between two calls are always taken.
FairSpec == Spec /\ WF_vars(LoopTop) /\ WF_vars(While) /\ WF_vars(RlExit)

(***************************************************************************)
(* The poll set of receive_loop (nocturn.c:423-452, 476).  Every iteration *)
(* of while (1) fills pollfds[POLLFDS] from scratch: first the entries of  *)
(* libusb_get_pollfds, then the entries of midipolls, each loop bounded by *)
(* fds < POLLFDS, and hands pollfds[0 .. fds-1] to poll.                   *)
(***************************************************************************)

\* the NULL-terminated list libusb_get_pollfds returns, n entries long
UsbPollfds(n) ==
    [i \in 1..n |-> [fd |-> i,
                     events |-> IF i % 2 = 1 THEN "POLLIN" ELSE "POLLOUT"]]

\* midipolls->pollfds with npfd = n
MidiPollfds(n) ==
    [i \in 1..n |-> [fd |-> 100 + i, events |-> "POLLIN"]]

\* int fds: the number of entries of pollfds filled so far
fds == Len(pollfds)

\* pollfds[fds].fd = (*usb_pollfd)->fd; pollfds[fds].events = ...->events;
UsbEntryNoEvents(d) == [fd |-> d.fd, events |-> "NONE"]

UsbEntry(d) == [fd |-> d.fd, events |-> d.events]

\* pollfds[fds] = midipolls->pollfds[i++];
MidiEntry(d) == d

InitPoll ==
    /\ CodecIdle
    /\ HexIdle
    /\ MainIdle
    /\ \E nu \in 0..MaxUsbFds, nm \in 0..MaxMidiFds :
          /\ usbExposed = UsbPollfds(nu)
          /\ midiExposed = MidiPollfds(nm)
    /\ pollfds = <<>>
    /\ usbfds = 0
    /\ pollpc = "top"

\* libusb_pollfds = libusb_get_pollfds(ctx): the set libusb exposes is read
\* anew (it may have changed since the last iteration); fds = 0.  The set
\* of midipolls is the one midi_init_alsa returned to main.
PollGetPollfds ==
    /\ pollpc = "top"
    /\ \E nu \in 0..MaxUsbFds : usbExposed' = UsbPollfds(nu)
    /\ pollfds' = <<>>
    /\ pollpc' = "usb"
    /\ UNCHANGED <<midiExposed, usbfds>>
    /\ UNCHANGED <<codecVars, hexVars, mainVars, loopVars>>

\* one pass of for (fds = 0; fds < POLLFDS; fds++) that does not break
PollAddUsb ==
    /\ pollpc = "usb"
    /\ fds < POLLFDS
    /\ fds < Len(usbExposed)              \* *usb_pollfd is not NULL
    /\ pollfds' = Append(pollfds, UsbEntry(usbExposed[fds + 1]))
    /\ UNCHANGED <<usbExposed, midiExposed, usbfds, pollpc>>
    /\ UNCHANGED <<codecVars, hexVars, mainVars, loopVars>>

\* the USB loop ends (bound reached or NULL found); int usbfds = fds;
PollUsbDone ==
    /\ pollpc = "usb"
    /\ ~ (fds < POLLFDS /\ fds < Len(usbExposed))
    /\ usbfds' = fds
    /\ pollpc' = "midi"
    /\ UNCHANGED <<usbExposed, midiExposed, pollfds>>
    /\ UNCHANGED <<codecVars, hexVars, mainVars, loopVars>>

\* one pass of for (; fds < POLLFDS; fds++) that does not break;
\* the loop's i is fds - usbfds, its mpolls is Len(midiExposed)
PollAddMidi ==
    /\ pollpc = "midi"
    /\ fds < POLLFDS
    /\ fds - usbfds < Len(midiExposed)    \* not (i >= mpolls)
    /\ pollfds' = Append(pollfds, MidiEntry(midiExposed[fds - usbfds + 1]))
    /\ UNCHANGED <<usbExposed, midiExposed, usbfds, pollpc>>
    /\ UNCHANGED <<codecVars, hexVars, mainVars, loopVars>>

\* the MIDI loop ends (bound reached or i >= mpolls)
PollMidiDone ==
    /\ pollpc = "midi"
    /\ ~ (fds < POLLFDS /\ fds - usbfds < Len(midiExposed))
    /\ pollpc' = "built"
    /\ UNCHANGED <<usbExposed, midiExposed, pollfds, usbfds>>
    /\ UNCHANGED <<codecVars, hexVars, mainVars, loopVars>>

\* libusb_get_next_timeout fails: break, poll is not called
PollTimeoutFailed ==
    /\ pollpc = "built"
    /\ pollpc' = "left"
    /\ UNCHANGED <<usbExposed, midiExposed, pollfds, usbfds>>
    /\ UNCHANGED <<codecVars, hexVars, mainVars, loopVars>>

\* int pollstat = poll(pollfds, fds, timeout_ms);
PollCall ==
    /\ pollpc = "built"
    /\ pollpc' = "polled"
    /\ UNCHANGED <<usbExposed, midiExposed, pollfds, usbfds>>
    /\ UNCHANGED <<codecVars, hexVars, mainVars, loopVars>>

\* the next iteration of while (1), or the first one of the next
\* receive_loop after the break: back to the top of the loop body
PollIterate ==
    /\ pollpc \in {"polled", "left"}
    /\ pollpc' = "top"
    /\ UNCHANGED <<usbExposed, midiExposed, pollfds, usbfds>>
    /\ UNCHANGED <<codecVars, hexVars, mainVars, loopVars>>

NextPoll ==
    \/ PollGetPollfds
    \/ PollAddUsb
    \/ PollUsbDone
    \/ PollAddMidi
    \/ PollMidiDone
    \/ PollTimeoutFailed
    \/ PollCall
    \/ PollIterate

SpecPoll == InitPoll /\ [][NextPoll]_vars

(***************************************************************************)
(* What the decoder's claims are stated over.                              *)
(***************************************************************************)
Fed == SubSeq(input, 1, pos)

IsStatusByte(b) == b >= 128

\* The index of the last status byte among p[1..j], 0 if there is none.
LastStatus(p, j) ==
    LET S == { i \in 1..j : IsStatusByte(p[i]) }
    IN  IF S = {} THEN 0 ELSE CHOOSE i \in S : \A k \in S : k <= i

\* Byte j of p is the second data byte of a pair counted from the most
\* recent status byte.
CompletesPair(p, j) ==
    /\ ~IsStatusByte(p[j])
    /\ LastStatus(p, j) > 0
    /\ (j - LastStatus(p, j)) % 2 = 0

\* The Event a completed pair stands for: the high and low nibble of the most
\* recent status byte, and the two data bytes.
PairEvent(p, j) ==
    LET s == p[LastStatus(p, j)]
    IN  <<(s \div 16) * 16, s % 16, p[j - 1], p[j]>>

RECURSIVE PairEvents(_, _)
PairEvents(p, j) ==
    IF j = 0 THEN <<>>
    ELSE IF CompletesPair(p, j)
         THEN Append(PairEvents(p, j - 1), PairEvent(p, j))
         ELSE PairEvents(p, j - 1)

IsControlChange(e) == e[1] = 176

InTouchRange(e) == e[3] >= 96 /\ e[3] <= 103

AsSend(e) == <<1, e[3], e[4]>>

SendsOf(es) == [i \in 1..Len(es) |-> AsSend(es[i])]

\* The next byte of the stream, when exactly one byte is fed by this step.
OneByteStep == pos' = pos + 1

NextByte == input[pos + 1]

(***************************************************************************)
(* C1  Running status: once a status byte has been seen, every completed   *)
(* pair of data bytes emits exactly one Event carrying the high nibble and *)
(* channel of the most recent status byte, and the decoder is back in      *)
(* DATA1 (not STATUS), so further pairs keep emitting Events; the stream   *)
(* B0 10 40 20 50 emits exactly (B0,0,10,40) then (B0,0,20,50).            *)
(***************************************************************************)
C1_RunningStatus ==
    /\ events = PairEvents(Fed, pos)
    /\ LastStatus(Fed, pos) > 0 =>
           state = (IF (pos - LastStatus(Fed, pos)) % 2 = 0
                    THEN "DATA1" ELSE "DATA2")
    /\ (input = Example /\ pos = Len(Example)) =>
           events = << <<176, 0, 16, 64>>, <<176, 0, 32, 80>> >>

\* A second pair under running status has emitted its Event.
C1_Witness ==
    /\ input = Example
    /\ pos = 5
    /\ Len(events) = 2
    /\ state = "DATA1"

(***************************************************************************)
(* C2  Boundary-independence: feeding a stream in several process_buffer   *)
(* calls, split at any byte boundary (empty pieces included), emits the    *)
(* same Events and sink calls and leaves the same decoder state as one     *)
(* process_buffer call on the whole of what was fed.                       *)
(***************************************************************************)
Observable(d) ==
    [state |-> d.state, status |-> d.status, chan |-> d.chan,
     data1 |-> d.data1, events |-> d.events, sent |-> d.sent]

C2_BoundaryIndependence ==
    Observable(Decoder) =
        Observable(process_buffer(FreshDecoder, Fed, charSigned, <<>>))

\* Two calls that cut a message between its data bytes, all of the stream fed.
C2_Witness ==
    /\ ncalls = 2
    /\ pos = Len(input)
    /\ split > 1 /\ split < pos
    /\ IsStatusByte(input[split - 1])
    /\ ~IsStatusByte(input[split])
    /\ Len(events) >= 1

(***************************************************************************)
(* C3  (as stated) A control-change Event with data1 in 96..103 is never   *)
(* passed to midi_send_control_change; every other control-change Event is *)
(* passed exactly once with (controller, value) = (data1, data2).          *)
(***************************************************************************)
ForwardedAsClaimed(e) == IsControlChange(e) /\ ~InTouchRange(e)

C3_SuppressedNotSent ==
    sent = SendsOf(SelectSeq(events, ForwardedAsClaimed))

(***************************************************************************)
(* C3  (amended) Every control-change Event, data1 in 96..103 included, is *)
(* passed to midi_send_control_change exactly once, in order, as           *)
(* (1, data1, data2); Events of another status are not passed; only the    *)
(* "Status" line printed for the Event is left out for data1 in 96..103.   *)
(***************************************************************************)
IsStatusLine(l) == l[1] = "Status"

AsStatusLine(e) == <<"Status", e[1], e[2], e[3], e[4]>>

StatusLinesOf(es) == [i \in 1..Len(es) |-> AsStatusLine(es[i])]

C3_AllControlChangesSent ==
    /\ sent = SendsOf(SelectSeq(events, IsControlChange))
    /\ SelectSeq(printed, IsStatusLine) =
           StatusLinesOf(SelectSeq(events, ForwardedAsClaimed))

\* A control change with data1 in 96..103 has reached the sink unprinted.
C3_Witness ==
    /\ Len(events) = 1
    /\ events[1][1] = 176
    /\ events[1][3] >= 96 /\ events[1][3] <= 103
    /\ sent = << <<1, events[1][3], events[1][4]>> >>
    /\ SelectSeq(printed, IsStatusLine) = <<>>


(***************************************************************************)
(* C8  A byte with its high bit set is a new status byte in every decoder  *)
(* state: status becomes the byte's high nibble (byte & 0xF0), channel its *)
(* low nibble, the decoder goes to DATA1 and no Event is emitted; a        *)
(* pending data1 is dropped, so the data1 of every emitted Event is the    *)
(* byte fed just before its data2, after the most recent status byte.      *)
(***************************************************************************)
C8_StatusByteStep ==
    (OneByteStep /\ IsStatusByte(NextByte)) =>
        /\ status' = (NextByte \div 16) * 16
        /\ chan' = NextByte % 16
        /\ state' = "DATA1"
        /\ events' = events
        /\ sent' = sent

C8_EventAfterStatus ==
    (OneByteStep /\ Len(events') > Len(events)) =>
        /\ pos >= 2
        /\ LastStatus(input, pos + 1) < pos
        /\ events'[Len(events')][3] = input[pos]
        /\ events'[Len(events')][4] = NextByte
        /\ events'[Len(events')][1] =
               (input[LastStatus(input, pos + 1)] \div 16) * 16

C8_StatusOverrides == [][C8_StatusByteStep /\ C8_EventAfterStatus]_vars

\* A status byte arrived with a data1 pending, and the next pair was emitted.
C8_Witness ==
    /\ input = <<176, 16, 176, 32, 80>>
    /\ pos = 5
    /\ events = << <<176, 0, 32, 80>> >>

(***************************************************************************)
(* C9  Orphan data bytes: while the decoder is in STATUS (no status byte   *)
(* seen yet), a data byte emits no Event and leaves state, status, channel *)
(* and data1 as they were; a stream of data bytes only, fed to a fresh     *)
(* decoder, emits no Event.                                                *)
(***************************************************************************)
C9_OrphanStep ==
    (OneByteStep /\ state = "STATUS" /\ ~IsStatusByte(NextByte)) =>
        /\ UNCHANGED <<state, status, chan, data1>>
        /\ UNCHANGED <<events, sent, printed>>

C9_DataOnly ==
    (\A i \in 1..pos' : ~IsStatusByte(input[i])) =>
        /\ events' = <<>>
        /\ state' = "STATUS"

C9_OrphanData == [][C9_OrphanStep /\ C9_DataOnly]_vars

\* Three data bytes were fed to the fresh decoder.
C9_Witness ==
    /\ input = <<16, 64, 32>>
    /\ pos = 3
    /\ state = "STATUS"
    /\ events = <<>>

(***************************************************************************)
(* C10  Totality and well-formed Events: from every reachable decoder      *)
(* state, every byte value 0..255 (sign-extended or not) takes the decoder *)
(* to a state in {STATUS, DATA1, DATA2} and emits zero or one Event; every *)
(* emitted Event has status in {0x80, 0x90, ..., 0xF0}, channel in 0..15   *)
(* and data1, data2 in 0..127.                                             *)
(***************************************************************************)
WellFormedEvent(e) ==
    /\ e[1] \in { 16 * k : k \in 8..15 }
    /\ e[2] \in 0..15
    /\ e[3] \in 0..127
    /\ e[4] \in 0..127

StepIsTotal(d, b) ==
    LET n == process(d, AsChar(b, charSigned), 0)
    IN  /\ n.state \in midi_state
        /\ Len(n.events) - Len(d.events) \in {0, 1}
        /\ \A i \in 1..Len(n.events) : WellFormedEvent(n.events[i])

C10_TotalWellFormed ==
    /\ state \in midi_state
    /\ \A i \in 1..Len(events) : WellFormedEvent(events[i])
    /\ \A b \in 0..255 : StepIsTotal(Decoder, b)

\* An Event on a channel other than 0 was emitted in a build with signed char.
C10_Witness ==
    /\ charSigned
    /\ Len(events) >= 1
    /\ events[1][2] > 0
    /\ state = "DATA1"


(***************************************************************************)
(* What the hex helper's claims are stated over: the value of a hex digit, *)
(* read off the digit's place in its alphabet.                             *)
(***************************************************************************)
HexValue(c) ==
    IF c \in DecimalDigits THEN c - 48
    ELSE IF c \in LowerHex THEN 10 + (c - 97)
    ELSE 10 + (c - 65)

PairValue(c0, c1) == 16 * HexValue(c0) + HexValue(c1)

\* The pair the last pass of the loop decoded.
LastPair == <<hexString[hexOff - 1], hexString[hexOff]>>

PairsDecoded(digits) ==
    /\ hexpc # "trap"
    /\ \A i \in 1..hexOff : hexString[i] \in digits

DecodedInOrder ==
    /\ Len(buf) = hexOff \div 2
    /\ \A k \in 1..Len(buf) :
           buf[k] = PairValue(hexString[2 * k - 1], hexString[2 * k])
    /\ hexOff > 0 => byteRet = PairValue(LastPair[1], LastPair[2])
    /\ (hexString = InitPayloads[1] /\ hexpc = "sent") => buf = <<176, 72, 0>>

(***************************************************************************)
(* C7  (as stated) For every pair of hex digits, each in 0-9, a-f or A-F,  *)
(* byte() returns 16 * value(first) + value(second), upper and lower case  *)
(* alike; send_hexdata decodes the pairs of a string in order, so "b04800" *)
(* becomes B0 48 00.                                                       *)
(***************************************************************************)
C7_CaseInsensitive == PairsDecoded(HexDigits) => DecodedInOrder

(***************************************************************************)
(* C7  (amended) For every pair of hex digits, each in 0-9 or lower-case   *)
(* a-f, byte() returns 16 * value(first) + value(second); send_hexdata     *)
(* decodes the pairs of such a string in order, so "b04800" becomes        *)
(* B0 48 00. For a pair holding an upper-case letter A-F byte() returns a  *)
(* negative int, not that value.                                           *)
(***************************************************************************)
C7_LowerCaseOnly ==
    /\ PairsDecoded(DecimalDigits \cup LowerHex) => DecodedInOrder
    /\ (hexpc # "trap" /\ hexOff > 0
          /\ (LastPair[1] \in UpperHex \/ LastPair[2] \in UpperHex)) =>
           byteRet < 0

\* "b04800" was decoded and handed to send_data.
C7_Witness ==
    /\ hexString = InitPayloads[1]
    /\ hexpc = "sent"
    /\ buf = <<176, 72, 0>>
    /\ byteRet = 0

(***************************************************************************)
(* The receive transfer of receive_loop.                                   *)
(***************************************************************************)
\* C4: in every state of receive_loop, whatever the order of poll returns,
\* transfer completions of any outcome and MIDI readiness, the transfer of
\* the running receive_loop is submitted and not yet completed zero times or
\* once, and libusb_submit_transfer has never been called while the
\* submission before it was still outstanding.
C4_AtMostOneOutstanding ==
    /\ outstanding \in {0, 1}
    /\ ~busySubmit

\* The transfer is outstanding again after a completion delivered bytes and
\* after midi_input ran: it has been submitted a second time.
C4_Witness ==
    /\ pc = "poll"
    /\ outstanding = 1
    /\ pos > 0
    /\ midiCalls > 0

(***************************************************************************)
(* main's loop, over the calls it has made.                                *)
(***************************************************************************)
IsAttempt(e) == e \in {"connect_fail", "connect_ok"}

IsAttemptOrSleep(e) == IsAttempt(e) \/ e = "sleep"

IsBringUp(e) == e \in {"init_fail", "init_ok"}

\* The connect attempts and the sleeps of main, in order.
Attempts == SelectSeq(log, IsAttemptOrSleep)

\* No sleep before the first attempt, and exactly one between two attempts.
OneSleepBetweenAttempts ==
    /\ Attempts # <<>> => IsAttempt(Attempts[1])
    /\ \A i \in 1..(Len(Attempts) - 1) :
           IsAttempt(Attempts[i]) <=> Attempts[i + 1] = "sleep"

\* Up to the first success after N failures: N + 1 attempts and N sleeps.
AttemptsUntilSuccess ==
    \A k \in 1..Len(Attempts) :
        (/\ Attempts[k] = "connect_ok"
         /\ \A j \in 1..(k - 1) : Attempts[j] # "connect_ok")
        => LET N == Cardinality({j \in 1..k : Attempts[j] = "connect_fail"})
           IN  /\ Cardinality({j \in 1..k : IsAttempt(Attempts[j])}) = N + 1
               /\ Cardinality({j \in 1..k : Attempts[j] = "sleep"}) = N

\* nocturn_init is what follows a successful usb_connect, and only that.
BringUpFollowsConnect ==
    \A i \in 1..(Len(log) - 1) :
        /\ log[i] = "connect_ok" => IsBringUp(log[i + 1])
        /\ IsBringUp(log[i + 1]) => log[i] = "connect_ok"

\* The statement with receive_loop entered after every successful connect.
C5_ReactorAfterEveryConnect ==
    /\ OneSleepBetweenAttempts
    /\ AttemptsUntilSuccess
    /\ BringUpFollowsConnect
    /\ \A i \in 1..(Len(log) - 2) :
           log[i] = "connect_ok" => log[i + 2] = "receive"

\* C5: after N consecutive usb_connect failures and a success main has made
\* exactly N + 1 attempts, with one sleep(1) between two consecutive attempts
\* and none before the first; the successful attempt is followed by
\* nocturn_init, and receive_loop is entered after nocturn_init returned
\* without error and only then: when nocturn_init returns an error main
\* sleeps and connects again.
C5_RetryThenBringUp ==
    /\ OneSleepBetweenAttempts
    /\ AttemptsUntilSuccess
    /\ BringUpFollowsConnect
    /\ \A i \in 1..(Len(log) - 1) :
           /\ log[i] = "init_ok" <=> log[i + 1] = "receive"
           /\ log[i] = "init_fail" => log[i + 1] = "sleep"

\* One failure, one sleep, a success, nocturn_init and receive_loop.
C5_Witness ==
    /\ Len(log) >= 5
    /\ SubSeq(log, 1, 5) =
           <<"connect_fail", "sleep", "connect_ok", "init_ok", "receive">>

\* C6: whatever error usb_connect, nocturn_init or receive_loop returns, on
\* any of receive_loop's exits, the condition of the do/while is true when it
\* is evaluated, the code after the loop is never reached, and usb_connect is
\* called again.
C6_NeverTerminates ==
    /\ [](pc # "exited")
    /\ [](pc = "while" => stat # 0)
    /\ [](pc = "while" => <>(pc = "connect"))

\* receive_loop has returned after poll failed and main is about to connect
\* again.
C6_Witness ==
    /\ pc = "connect"
    /\ stat = LIBUSB_ERROR_OTHER
    /\ outstanding = 0

(***************************************************************************)
(* The sink failing.                                                       *)
(***************************************************************************)
IsSendFailure(l) == l = <<"Couldn't send midi">>

\* The bytes handed to process_buffer by the step being taken.
SliceOfStep == SubSeq(input, pos + 1, pos')

\* C11: a failure of midi_send_control_change is not fatal: whatever the sink
\* returns for the Events of a completed transfer, the decoder state, the
\* Events and the sink calls after the completion is handled are those of a
\* sink that never fails, so every later Event is still passed on in order,
\* and receive_loop goes on to the MIDI descriptors with its stat unchanged.
C11_SinkFailureNonFatal ==
    [][pc = "handle" =>
          /\ pc' = "midi"
          /\ rstat' = rstat
          /\ Observable(Decoder') =
                 Observable(process_buffer(Decoder, SliceOfStep, charSigned,
                                           <<>>))]_vars

\* A send has failed, and the Event decoded after it was passed to the sink.
C11_Witness ==
    /\ Len(sent) = 2
    /\ Len(printed) >= 3
    /\ IsSendFailure(printed[2])
    /\ IsStatusLine(printed[3])
    /\ pc = "midi"

(***************************************************************************)
(* What receive_loop does with the outcome of a transfer.                  *)
(***************************************************************************)
FatalStatuses == {"CANCELLED", "NO_DEVICE"}

\* The step of receive_loop after rx_cb was called with status st.
AfterOutcome(st) == pc = "resubmit" /\ lastStatus = st

\* libusb_submit_transfer is called on the transfer in the step: it is
\* outstanding again, or the call failed and receive_loop leaves with the
\* error.
SubmitsAgain ==
    \/ pc' = "poll" /\ outstanding' = outstanding + 1
    \/ pc' = "exit_ml" /\ rstat' < 0 /\ outstanding' = outstanding

\* The statement with cancelled and device gone ending receive_loop without
\* a resubmission.
C12_FatalOutcomeEnds ==
    [][/\ \A st \in TransferStatuses \ FatalStatuses :
              AfterOutcome(st) => SubmitsAgain
       /\ \A st \in FatalStatuses :
              AfterOutcome(st) => pc' = "exit_ml"]_vars

\* C12: after a receive transfer completes with any outcome, cancelled and
\* device gone included, rx_cb has marked it for resubmission and
\* receive_loop submits the same transfer again; receive_loop leaves only
\* when that submit call fails.
C12_ResubmitOnEveryOutcome ==
    [][/\ (pc = "handle" /\ lastStatus' # "NONE") => resubmit' = 1
       /\ \A st \in TransferStatuses :
              AfterOutcome(st) => resubmit = 1 /\ SubmitsAgain]_vars

\* rx_cb has run for a cancelled transfer and the flag is set.
C12_Witness ==
    /\ pc = "resubmit"
    /\ lastStatus = "CANCELLED"
    /\ resubmit = 1
    /\ outstanding = 0

(***************************************************************************)
(* Which received bytes are decoded.                                       *)
(***************************************************************************)
\* What the decoder holds and has emitted, and how far the stream was read.
DecoderProgress == <<state, status, chan, data1, events, sent, printed, pos>>

\* C13: bytes reach the decoder only from a transfer whose status is
\* LIBUSB_TRANSFER_COMPLETED, its first actual_length bytes in order; over
\* any number of transfers and reconnections the decoder state, the Events
\* and the sink calls are those of decoding the concatenation of the slices
\* of the completed transfers, and what a transfer that timed out or failed
\* held is never decoded.
C13_OnlyCompletedDecoded ==
    /\ [](Observable(Decoder) =
              Observable(process_buffer(FreshDecoder, Fed, charSigned, <<>>)))
    /\ [][DecoderProgress' # DecoderProgress
              => pc = "handle" /\ lastStatus' = "COMPLETED"]_vars

\* The whole stream was decoded, a transfer that did not complete held
\* bytes, and main has been round its loop more than once.
C13_Witness ==
    /\ lostBytes
    /\ pos = Len(input)
    /\ Len(events) = 2
    /\ Len(log) >= 6

(***************************************************************************)
(* midi_input in a pass of receive_loop.                                   *)
(***************************************************************************)
\* The statement with one call of midi_input however many descriptors are
\* readable.
C14_OnceIfAnyReady ==
    [][pc = "midi" => midiCalls' = (IF midiReady >= 1 THEN 1 ELSE 0)]_vars

\* C14: in each pass of the loop midi_input is called once for every MIDI
\* descriptor that poll reported readable: not at all when none is, once
\* when one is, and as many times as there are readable descriptors when
\* several are.
C14_OncePerReadyDescriptor ==
    [][pc = "midi" => midiCalls' = midiReady]_vars

\* Two MIDI descriptors were readable and midi_input has been called twice.
C14_Witness ==
    /\ pc = "resubmit"
    /\ midiCalls = 2

(***************************************************************************)
(* How receive_loop leaves its loop.                                       *)
(***************************************************************************)
\* The step leaves the while (1) loop, the first submit having succeeded.
LeavesLoop == pc \in {"poll", "handle", "midi", "resubmit"} /\ pc' = "exit_ml"

\* The statement with a failed resubmission as the only way out of the loop.
C15_OnlyResubmitFailureEnds ==
    [][LeavesLoop => pc = "resubmit" /\ rstat' # 0]_vars

\* C15: once the first submit has succeeded receive_loop leaves its loop when
\* libusb_get_next_timeout fails, when poll fails (stat becomes
\* LIBUSB_ERROR_OTHER) or when submitting the transfer again fails, each with
\* a nonzero stat, and on nothing else: no outcome of a transfer and no
\* result of midi_input ends the loop, and a failed resubmission always does.
C15_ThreeWaysOut ==
    [][/\ LeavesLoop =>
              \/ pc = "poll" /\ rstat' \in LibusbErrors \cup {LIBUSB_ERROR_OTHER}
              \/ pc = "resubmit" /\ resubmit # 0 /\ rstat' # 0
       /\ (pc = "resubmit" /\ resubmit # 0 /\ rstat' # 0) => pc' = "exit_ml"
       /\ pc \in {"handle", "midi"} => pc' # "exit_ml"]_vars

\* The loop was left because poll failed, no resubmission having failed.
C15_Witness ==
    /\ pc = "exit_ml"
    /\ rstat = LIBUSB_ERROR_OTHER
    /\ pos > 0

(***************************************************************************)
(* The device handles usb_connect opens.                                   *)
(***************************************************************************)
\* C16: the connection is released before the next connect attempt, after
\* every return of receive_loop and every failed nocturn_init: no handle is
\* open when usb_connect is called and never more than one is open.
C16_OneHandleAtMost ==
    /\ openHandles <= 1
    /\ pc = "connect" => openHandles = 0

(***************************************************************************)
(* nocturn_init's writes.                                                  *)
(***************************************************************************)
\* The payloads "b04800", "b04060", "b05130", "b05030" as bytes.
BringUpBytes ==
    << <<176, 72, 0>>, <<176, 64, 96>>, <<176, 81, 48>>, <<176, 80, 48>> >>

\* The statement with every payload written and receive_loop always entered.
C17_BestEffort ==
    [][pc = "init" =>
          /\ Len(initSends') = Len(BringUpBytes)
          /\ pc' = "receive"]_vars

\* C17: nocturn_init writes the payloads in order; when the first or the
\* second write fails it returns that error at once, the payloads after it
\* are not written and main goes round its loop without entering
\* receive_loop; when both succeed the third and the fourth are written,
\* what they return is ignored, nocturn_init returns 0 and receive_loop is
\* entered.
C17_FirstTwoWritesDecide ==
    [][pc = "init" =>
          LET w == initSends'
              n == Len(w)
          IN  /\ n \in 1..Len(BringUpBytes)
              /\ \A i \in 1..n : w[i].bytes = BringUpBytes[i]
              /\ \A i \in 1..(n - 1) : i <= 2 => w[i].res >= 0
              /\ n < Len(BringUpBytes) =>
                     /\ n <= 2
                     /\ w[n].res < 0
                     /\ stat' = w[n].res
                     /\ pc' = "while"
              /\ n = Len(BringUpBytes) =>
                     /\ w[1].res >= 0 /\ w[2].res >= 0
                     /\ stat' = 0
                     /\ pc' = "receive"]_vars

\* The second write failed: two writes were made and main is at the loop
\* condition with that error.
C17_Witness ==
    /\ pc = "while"
    /\ Len(initSends) = 2
    /\ initSends[2].res < 0
    /\ stat = initSends[2].res

(***************************************************************************)
(* The endpoints usb_connect leaves in usb_info.                           *)
(***************************************************************************)
\* C18: when the two endpoint addresses have the same direction bit
\* usb_connect returns an error, so whenever it has filled usb_info in,
\* rx_ep has bit 7 set, tx_ep has bit 7 clear and neither is the initial
\* value (uint8_t) -1 that no descriptor address replaced.
C18_EndpointsResolved ==
    usb_info.devh # 0 =>
        /\ BitSet(usb_info.rx_ep, 128)
        /\ ~BitSet(usb_info.tx_ep, 128)

(***************************************************************************)
(* The transfer when receive_loop frees it.                                *)
(***************************************************************************)
\* C19: on every way to exit_ml the transfer is not outstanding when
\* libusb_free_transfer is called and receive_loop returns, so neither the
\* transfer nor the buffer on receive_loop's stack is given up while a
\* receive is still in flight.
C19_NotFreedInFlight ==
    pc = "exit_ml" => outstanding = 0

(***************************************************************************)
(* The decoder over reconnections.                                         *)
(***************************************************************************)
\* The statement with a fresh decoder for every run of receive_loop: when
\* receive_loop is entered the decoder awaits a status byte and has none.
C20_FreshPerConnection ==
    pc = "receive" =>
        /\ state = FreshDecoder.state
        /\ status = FreshDecoder.status

\* The first bytes of this run of receive_loop are handed to the decoder and
\* begin with a data byte, the decoder having been left awaiting data2.
FirstBytesCompletePair ==
    /\ pc = "handle"
    /\ pos = connStart
    /\ pos' > pos
    /\ state = "DATA2"
    /\ ~IsStatusByte(input[pos + 1])

\* C20: the decoder's state lasts as long as the process: nothing but
\* process() changes state, status, chan and data1, a run of receive_loop on
\* a new connection starts with them as the run before left them, and a data
\* byte that is the first to arrive on the new connection completes the Event
\* whose status and data1 arrived on the one before.
C20_DecoderOutlivesConnection ==
    [][/\ pc # "handle" => UNCHANGED <<state, status, chan, data1>>
       /\ FirstBytesCompletePair =>
              /\ Len(events') > Len(events)
              /\ events'[Len(events) + 1] =
                     <<status, chan, data1, input[pos + 1]>>]_vars

\* After a reconnection: the status byte and data1 of the first Event came
\* on an earlier connection, its data2 on the running one.
C20_Witness ==
    /\ pc = "midi"
    /\ connStart = 2
    /\ pos >= 3
    /\ Len(events) >= 1
    /\ Len(log) >= 6


\* ---- C21 ----

Exposed == usbExposed \o midiExposed

\* C21 as stated: whenever poll is called, the set handed to it holds every
\* descriptor the USB subsystem exposes followed by every descriptor the
\* MIDI source exposes, whatever their numbers, and usbfds is the number of
\* USB descriptors.
C21_AllDescriptorsWaited ==
    pollpc = "polled" => /\ pollfds = Exposed
                         /\ usbfds = Len(usbExposed)

\* C21 (amended): whenever poll is called, the set handed to it is the first
\* POLLFDS entries of the USB descriptors followed by the MIDI descriptors,
\* each with its interest mask, and usbfds is the number of USB entries in
\* it; so every exposed descriptor is waited on exactly when there are at
\* most POLLFDS of them, and the ones beyond POLLFDS are left out.
C21_FirstPollfdsWaited ==
    pollpc = "polled" =>
        /\ pollfds = SubSeq(Exposed, 1, Min(Len(Exposed), POLLFDS))
        /\ usbfds = Min(Len(usbExposed), POLLFDS)
        /\ Len(Exposed) <= POLLFDS => pollfds = Exposed

\* poll is called with more than POLLFDS descriptors exposed: USB entries
\* with both interest masks are in, one MIDI entry is in and one is left out
C21_Witness ==
    /\ pollpc = "polled"
    /\ Len(Exposed) > POLLFDS
    /\ usbfds = Len(usbExposed)
    /\ \E i \in 1..usbfds : pollfds[i].events = "POLLOUT"
    /\ fds = usbfds + 1
    /\ Len(midiExposed) = 2
    /\ pollfds[fds] = midiExposed[1]

=============================================================================
